---- MODULE Spec2Model ----
(***************************************************************************)
(* A model of pons-cli (src/main.go): the interactive dictionary client,   *)
(* its file cache (key derivation, TTL freshness, startup sweep), the      *)
(* translation lookup pipeline and the Roman-numeral heading formatter.    *)
(*                                                                         *)
(* Specifications:                                                         *)
(*   Spec       the interactive loop of main() and its command handlers    *)
(*   SpecSweep  the startup sweep cleanupExpiredCacheFiles()               *)
(*   SpecFresh  isCacheValid() applied to drawn inputs                     *)
(*   SpecKey    getTranslationCacheKey() applied to drawn pairs            *)
(*   SpecRoman  toRoman(), one loop iteration per step                     *)
(*   SpecHistory  lookups and .set search_history_limit, with the limit    *)
(*              the configuration file asks for                            *)
(* Time is counted in whole seconds; the wall clock never runs backwards.  *)
(***************************************************************************)
EXTENDS Integers, Sequences, FiniteSets, TLC

VARIABLES
    \* ---- the process and its environment (Spec, SpecSweep)
    pc,            \* "prompt" | "ran" | "exited" | "sweep" | "swept" | "idle"
    now,           \* wall clock, seconds
    cacheDir,      \* entry name -> NoEntry | [isDir, modTime, content]
    config,        \* var config Config
    currentDict,   \* var currentDict string
    searchHistory, \* rows of table search_history, in insertion (date) order;
                   \* the date column itself is left out
    last,          \* what the command of this pass of the loop did
    prev,          \* the lookup of the previous pass, if it cached a response
    \* ---- cleanupExpiredCacheFiles (SpecSweep)
    swFiles,       \* files, the os.ReadDir result
    swIdx,         \* position of the range loop in files
    swLog,         \* one record per loop iteration
    \* ---- isCacheValid (SpecFresh)
    fStat, fTtl, fRet, fpc,
    \* ---- getTranslationCacheKey (SpecKey)
    kA, kB, kKeyA, kKeyB, kpc,
    \* ---- toRoman (SpecRoman)
    rIn, num, ri, sb, rpc,
    \* ---- the search history's surroundings
    searchHistoryLimit, \* search_history_limit as config.toml states it, or
                        \* the documented default (src/README.md:94)
    dbCapacity          \* rows the database file has room for

procVars  == <<pc, now, cacheDir, config, currentDict, searchHistory, last, prev>>
sweepVars == <<swFiles, swIdx, swLog>>
freshVars == <<fStat, fTtl, fRet, fpc>>
keyVars   == <<kA, kB, kKeyA, kKeyB, kpc>>
romanVars == <<rIn, num, ri, sb, rpc>>
histVars  == <<searchHistoryLimit, dbCapacity>>
vars == <<procVars, sweepVars, freshVars, keyVars, romanVars, histVars>>

(***************************************************************************)
(* Bounds of the model.                                                    *)
(***************************************************************************)
MaxTime == 1
MaxRoman == 3999
MaxHistory == 1

None == "none"

(***************************************************************************)
(* toRoman (src/main.go:380-391)                                           *)
(***************************************************************************)
vals == <<1000, 900, 500, 400, 100, 90, 50, 40, 10, 9, 5, 4, 1>>
romans == <<"M", "CM", "D", "CD", "C", "XC", "L", "XL", "X", "IX", "V", "IV", "I">>

RECURSIVE BuilderString(_)
\* strings.Builder.String(): the concatenation of the strings written so far
BuilderString(w) == IF w = <<>> THEN "" ELSE w[1] \o BuilderString(Tail(w))

\* the inner loop's condition: for num >= v
InnerCondGt(n, v) == n > v

InnerCond(n, v) == n >= v

\* for num >= v { num -= v; sb.WriteString(romans[i]) }
RomanInner ==
    /\ rpc = "loop" /\ ri <= Len(vals) /\ InnerCond(num, vals[ri])
    /\ num' = num - vals[ri]
    /\ sb' = Append(sb, romans[ri])
    /\ UNCHANGED <<rIn, ri, rpc>>
    /\ UNCHANGED <<procVars, sweepVars, freshVars, keyVars, histVars>>

\* the inner loop's condition is false: the range loop takes the next value
RomanNextVal ==
    /\ rpc = "loop" /\ ri <= Len(vals) /\ ~InnerCond(num, vals[ri])
    /\ ri' = ri + 1
    /\ UNCHANGED <<rIn, num, sb, rpc>>
    /\ UNCHANGED <<procVars, sweepVars, freshVars, keyVars, histVars>>

\* the range loop is over: return sb.String()
RomanReturn ==
    /\ rpc = "loop" /\ ri > Len(vals)
    /\ rpc' = "done"
    /\ UNCHANGED <<rIn, num, ri, sb>>
    /\ UNCHANGED <<procVars, sweepVars, freshVars, keyVars, histVars>>

(***************************************************************************)
(* getTranslationCacheKey (src/main.go:412-415).  SHA-256 and the hex      *)
(* encoding are injective maps of their input bytes (the digest is taken   *)
(* as collision-free); what the function adds is the concatenation.        *)
(***************************************************************************)
Sum256(bytes) == "sha256(" \o bytes \o ")"
EncodeToString(hash) == "hex(" \o hash \o ")"


getTranslationCacheKey(word, dict) == EncodeToString(Sum256(word \o "_" \o dict))

\* getCacheFile(name): the entry name inside the cache directory
getCacheFile(name) == name

(***************************************************************************)
(* isCacheValid (src/main.go:609-618).  st is the os.Stat result:          *)
(* [err |-> "notexist" | "other" | "", modTime |-> seconds].               *)
(***************************************************************************)
Since(clock, t) == clock - t

isCacheValidInverted(st, ttl, clock) ==
    IF st.err = "notexist" THEN FALSE
    ELSE IF st.err # "" THEN FALSE
    ELSE Since(clock, st.modTime) > ttl

isCacheValidLe(st, ttl, clock) ==
    IF st.err = "notexist" THEN FALSE
    ELSE IF st.err # "" THEN FALSE
    ELSE Since(clock, st.modTime) <= ttl

isCacheValid(st, ttl, clock) ==
    IF st.err = "notexist" THEN FALSE
    ELSE IF st.err # "" THEN FALSE
    ELSE Since(clock, st.modTime) < ttl

(***************************************************************************)
(* The environment of the interactive session.                             *)
(***************************************************************************)
\* words the user types (strings.Fields: any run of non-blank characters)
Words == {"a", "a_b"}

\* JSON documents the dictionaries endpoint answers with (apostrophes stand
\* for the double quotes of JSON)
DictListJson == "[{'key':'c','simple_label':'C','languages':['c','x']},{'key':'b_c','simple_label':'BC','languages':['b','c']},{'key':'mono','simple_label':'M','languages':['m']}]"
MalformedJson == "[{"
DictBodies == {DictListJson, MalformedJson}

\* JSON documents the dictionary endpoint answers with
RomsJson == "[{'lang':'c','hits':[{'roms':[{'headword':'h1','arabs':[{'header':'<b>n</b>','translations':[{'source':'<i>s</i>','target':'t'}]}]},{'headword':'h2','arabs':[]}]}]}]"
FlatJson == "[{'lang':'c','hits':[{'source':'s','target':'t'}]}]"
\* what the service may send for a word: the word's entry, or a damaged document
TransBodies(word) == {IF word = "a" THEN RomsJson ELSE FlatJson, MalformedJson}

\* json.Unmarshal into []Dictionary (src/main.go:48-52, 557, 596)
UnmarshalDictionaries(body) ==
    IF body = DictListJson
    THEN [err |-> "",
          val |-> << [Key |-> "c", SimpleLabel |-> "C", Languages |-> <<"c", "x">>],
                     [Key |-> "b_c", SimpleLabel |-> "BC", Languages |-> <<"b", "c">>],
                     [Key |-> "mono", SimpleLabel |-> "M", Languages |-> <<"m">>] >>]
    ELSE [err |-> "unexpected end of JSON input", val |-> <<>>]

\* a decoder that takes a damaged document for an empty response
UnmarshalTranslationsLenient(body) == [err |-> "", val |-> <<>>]

\* json.Unmarshal into TranslationResponse (src/main.go:55-79, 244, 294)
UnmarshalTranslations(body) ==
    IF body = RomsJson
    THEN [err |-> "",
          val |-> << [Lang |-> "c",
                      Hits |-> << [Roms |-> << [Headword |-> "h1",
                                                Arabs |-> << [Header |-> "<b>n</b>",
                                                              Translations |-> << [Source |-> "<i>s</i>", Target |-> "t"] >>] >>],
                                               [Headword |-> "h2", Arabs |-> <<>>] >>,
                                   Source |-> "", Target |-> ""] >>] >>]
    ELSE IF body = FlatJson
    THEN [err |-> "",
          val |-> << [Lang |-> "c",
                      Hits |-> << [Roms |-> <<>>, Source |-> "s", Target |-> "t"] >>] >>]
    ELSE [err |-> "unexpected end of JSON input", val |-> <<>>]

\* strconv.Atoi on the values the user passes to .set
Atoi(sv) ==
    CASE sv = "0" -> [err |-> FALSE, val |-> 0]
      [] sv = "1" -> [err |-> FALSE, val |-> 1]
      [] sv = "-1" -> [err |-> FALSE, val |-> 0 - 1]
      [] sv = "100" -> [err |-> FALSE, val |-> 100]
      [] OTHER -> [err |-> TRUE, val |-> 0]

(***************************************************************************)
(* The renderer: displayTranslation (src/main.go:353-378), parseHTML       *)
(* (393-410) and toRoman as a function (380-391).  Standard output is a    *)
(* sequence of printed pieces; column widths are layout and left out.      *)
(***************************************************************************)
RECURSIVE toRomanFrom(_, _)
toRomanFrom(n, i) ==
    IF i > Len(vals) THEN ""
    ELSE IF InnerCond(n, vals[i]) THEN romans[i] \o toRomanFrom(n - vals[i], i)
    ELSE toRomanFrom(n, i + 1)

toRoman(n) == toRomanFrom(n, 1)

\* the text nodes of the parsed fragment, concatenated
parseHTML(htmlString) ==
    CASE htmlString = "<b>n</b>" -> "n"
      [] htmlString = "<i>s</i>" -> "s"
      [] OTHER -> htmlString

ToUpper(str) ==
    CASE str = "c" -> "C"
      [] str = "b_" -> "B_"
      [] str = "" -> ""
      [] OTHER -> "upper(" \o str \o ")"

\* strings.Replace(str, old, "", 1)
Replace1(str, old) ==
    CASE str = "c" /\ old = "c" -> ""
      [] str = "b_c" /\ old = "c" -> "b_"
      [] OTHER -> "replace1(" \o str \o "," \o old \o ")"

RECURSIVE tableRows(_)
\* newTable + AppendRow per translation + Render
tableRows(translations) ==
    IF translations = <<>> THEN <<>>
    ELSE << parseHTML(translations[1].Source) \o " | " \o parseHTML(translations[1].Target) >>
         \o tableRows(Tail(translations))

RECURSIVE displayArabs(_)
displayArabs(arabs) ==
    IF arabs = <<>> THEN <<>>
    ELSE << parseHTML(arabs[1].Header) >> \o tableRows(arabs[1].Translations)
         \o displayArabs(Tail(arabs))

RECURSIVE displayRoms(_, _)
displayRoms(roms, i) ==
    IF i > Len(roms) THEN <<>>
    ELSE << toRoman(i) \o ". " \o roms[i].Headword >> \o displayArabs(roms[i].Arabs)
         \o displayRoms(roms, i + 1)

RECURSIVE displayHits(_)
displayHits(hits) ==
    IF hits = <<>> THEN <<>>
    ELSE (IF Len(hits[1].Roms) > 0
          THEN displayRoms(hits[1].Roms, 1)
          ELSE tableRows(<< [Source |-> hits[1].Source, Target |-> hits[1].Target] >>))
         \o displayHits(Tail(hits))

RECURSIVE displayLangs(_, _)
displayLangs(translations, dictKey) ==
    IF translations = <<>> THEN <<>>
    ELSE << ToUpper(translations[1].Lang) \o " > "
            \o ToUpper(Replace1(dictKey, translations[1].Lang)) >>
         \o displayHits(translations[1].Hits)
         \o displayLangs(Tail(translations), dictKey)

displayTranslation(translations, dictKey) == displayLangs(translations, dictKey) \o << "" >>

(***************************************************************************)
(* The cache directory.  An entry is [kind, modTime, content] with kind    *)
(* "none" (no such entry), "file" or "dir".                                *)
(***************************************************************************)
NoEntry == [kind |-> "none", modTime |-> 0, content |-> ""]

\* the dictionaries the user may select, and the keys typed after .dict
DictKeys == {"c"}
DictArgs == DictKeys \cup {"zz"}

DictionariesFile == getCacheFile("dictionaries.json")
TranslationFile(word, dict) == getCacheFile(getTranslationCacheKey(word, dict) \o ".json")
SubDir == "subdir"

\* the directory listing in the order os.ReadDir returns it (by file name)
NamesSorted ==
    << DictionariesFile, TranslationFile("a_b", "c"), TranslationFile("a", "c"), SubDir >>
CacheNames == { NamesSorted[i] : i \in 1..Len(NamesSorted) }

\* the entry of a name, and the directory with one entry replaced
Entry(dir, name) == IF name \in DOMAIN dir THEN dir[name] ELSE NoEntry
PutEntry(dir, name, e) ==
    [n \in DOMAIN dir \cup {name} |-> IF n = name THEN e ELSE dir[n]]

\* os.Stat(path): fails is the environment's choice of an error other than
\* "does not exist"
Stat(entry, fails) ==
    IF fails THEN [err |-> "other", modTime |-> 0]
    ELSE IF entry.kind = "none" THEN [err |-> "notexist", modTime |-> 0]
    ELSE [err |-> "", modTime |-> entry.modTime]

\* what a write that fails part-way leaves in the file: a prefix of data
\* (here its first two bytes; all of data when the error comes at close)
PartOf(data) == IF data = "" THEN "" ELSE MalformedJson

\* os.WriteFile(name, data, 0644): open with O_WRONLY|O_CREATE|O_TRUNC, write,
\* close.  outcome "openfail" leaves the entry as it was, "writefail" leaves
\* it truncated and part-written.
WriteFileDrop(entry, data, outcome, clock) ==
    IF outcome = "openfail" THEN entry
    ELSE [kind |-> "file", modTime |-> clock, content |-> PartOf(data)]

WriteFile(entry, data, outcome, clock) ==
    CASE outcome = "ok" -> [kind |-> "file", modTime |-> clock, content |-> data]
      [] outcome = "openfail" -> entry
      [] OTHER -> [kind |-> "file", modTime |-> clock, content |-> PartOf(data)]
WriteOutcomes == {"ok", "openfail", "writefail"}

\* cacheTTL := time.Duration(config.CacheTTL) * time.Second, in seconds.  The
\* values of cache_ttl in this model are far below 2^63 nanoseconds, where
\* the multiplication would wrap.
cacheTTL(cfg) == cfg.CacheTTL

(***************************************************************************)
(* The remote service: what http.DefaultClient.Do and io.ReadAll(resp.Body)*)
(* can hand back.  status 0 stands for a transport error.                  *)
(***************************************************************************)
StatusOK == 200
StatusNoContent == 204
\* the other statuses the service answers with
OtherStatuses == {500}

Responses(bodies) ==
    { [status |-> 0, body |-> "", readErr |-> FALSE],
      [status |-> StatusNoContent, body |-> "", readErr |-> FALSE] }
    \cup { [status |-> st, body |-> "", readErr |-> FALSE] : st \in OtherStatuses }
    \cup { [status |-> StatusOK, body |-> b, readErr |-> FALSE] : b \in bodies }
    \cup { [status |-> StatusOK, body |-> "", readErr |-> TRUE] }

\* fmt's %d of a status code
StatusText(status) == ToString(status)

(***************************************************************************)
(* What a handler did: its returned error, what it printed on standard     *)
(* output and through package log, the cache directory and history it      *)
(* leaves, and the steps it took.                                          *)
(***************************************************************************)
Did ==
    [err |-> "", stdout |-> <<>>, log |-> <<>>,
     dir |-> cacheDir, hist |-> searchHistory,
     checked |-> FALSE, stat |-> [err |-> "nostat", modTime |-> 0], valid |-> FALSE,
     http |-> 0, status |-> 0, fetched |-> None, bodyRead |-> None,
     write |-> None, unmarshals |-> 0, rendered |-> FALSE, histTried |-> FALSE,
     dictionaries |-> <<>>]

\* addSearchHistory (src/main.go:308-317), called from handleTranslation
\* (249-252, 300-303): a failure is logged and the command goes on
\* the database file holds at most dbCapacity rows: an INSERT beyond fails
withSearchHistory(o, term, dictionary) ==
    { [o EXCEPT !.histTried = TRUE,
                !.hist = Append(o.hist, [term |-> term, dict |-> dictionary])]
      : ok \in IF Len(o.hist) < dbCapacity THEN {TRUE} ELSE {} }
    \cup
    { [o EXCEPT !.histTried = TRUE,
                !.log = Append(o.log, "could not add search history")] }

\* if currentDict == "" (src/main.go:219)
NoDictSelectedNever(dict) == FALSE

NoDictSelected(dict) == dict = ""

\* if resp.StatusCode == http.StatusNoContent (src/main.go:273)
IsNoContentNever(status) == FALSE

IsNoContent(status) == status = StatusNoContent

\* handleTranslation, the cache branch (src/main.go:231-254)
translationFromCache(o, word, entry) ==
    { [o EXCEPT !.err = "could not open cache file"],
      [o EXCEPT !.err = "could not read cache file"] }
    \cup
    LET body == entry.content
        u == UnmarshalTranslations(body)
        o1 == [o EXCEPT !.bodyRead = body, !.unmarshals = 1]
    IN  IF u.err # ""
        THEN { [o1 EXCEPT !.err = "could not unmarshal cached json: " \o u.err] }
        ELSE withSearchHistory(
                 [o1 EXCEPT !.stdout = o1.stdout \o displayTranslation(u.val, currentDict),
                            !.rendered = TRUE],
                 word, currentDict)

\* handleTranslation, the fetch branch (src/main.go:256-305)
translationFromRemote(o, word, cacheFile) ==
    UNION { LET o1 == [o EXCEPT !.http = 1, !.status = resp.status] IN
        IF resp.status = 0
        THEN { [o1 EXCEPT !.err = "could not fetch translation"] }
        ELSE IF IsNoContent(resp.status)
        THEN { [o1 EXCEPT !.stdout = << "No translation found" >>] }
        ELSE IF resp.status # StatusOK
        THEN { [o1 EXCEPT !.err = "bad status code: " \o StatusText(resp.status)] }
        ELSE IF resp.readErr
        THEN { [o1 EXCEPT !.err = "could not read response body"] }
        ELSE UNION { LET
                o2 == [o1 EXCEPT
                         !.fetched = resp.body,
                         !.write = w,
                         !.dir = PutEntry(o1.dir, cacheFile,
                                     WriteFile(Entry(o1.dir, cacheFile), resp.body, w, now)),
                         !.stdout = IF w = "ok" THEN o1.stdout
                                    ELSE Append(o1.stdout, "could not write cache file")]
                u == UnmarshalTranslations(resp.body)
                o3 == [o2 EXCEPT !.unmarshals = 1]
              IN IF u.err # ""
                 THEN { [o3 EXCEPT !.err = "could not unmarshal json: " \o u.err] }
                 ELSE withSearchHistory(
                          [o3 EXCEPT !.stdout = o3.stdout \o displayTranslation(u.val, currentDict),
                                     !.rendered = TRUE],
                          word, currentDict)
              : w \in WriteOutcomes }
        : resp \in Responses(TransBodies(word)) }

\* handleTranslation (src/main.go:218-306): every way the call can go
handleTranslation(word) ==
    IF NoDictSelected(currentDict)
    THEN { [Did EXCEPT !.err = "no dictionary selected. Use .dict <key> to select one"] }
    ELSE LET cacheFile == TranslationFile(word, currentDict) IN
         UNION { LET st == Stat(Entry(cacheDir, cacheFile), statFails)
                     valid == isCacheValid(st, cacheTTL(config), now)
                     o == [Did EXCEPT !.checked = TRUE, !.stat = st, !.valid = valid]
                 IN  IF valid
                     THEN translationFromCache(o, word, Entry(cacheDir, cacheFile))
                     ELSE translationFromRemote(o, word, cacheFile)
               : statFails \in BOOLEAN }

\* getDictionaries (src/main.go:538-602): every way the call can go
getDictionaries ==
    LET cacheFile == DictionariesFile IN
    UNION { LET st == Stat(Entry(cacheDir, cacheFile), statFails)
                valid == isCacheValid(st, cacheTTL(config), now)
                o == [Did EXCEPT !.checked = TRUE, !.stat = st, !.valid = valid]
            IN  IF valid
                THEN { [o EXCEPT !.err = "could not open cache file"],
                       [o EXCEPT !.err = "could not read cache file"] }
                     \cup
                     LET body == Entry(cacheDir, cacheFile).content
                         u == UnmarshalDictionaries(body)
                         o1 == [o EXCEPT !.bodyRead = body, !.unmarshals = 1]
                     IN  IF u.err # ""
                         THEN { [o1 EXCEPT !.err = "could not unmarshal cached json: " \o u.err] }
                         ELSE { [o1 EXCEPT !.dictionaries = u.val] }
                ELSE UNION { LET o1 == [o EXCEPT !.http = 1, !.status = resp.status] IN
                        IF resp.status = 0
                        THEN { [o1 EXCEPT !.err = "could not fetch dictionaries"] }
                        ELSE IF resp.status # StatusOK
                        THEN { [o1 EXCEPT !.err = "bad status code: " \o StatusText(resp.status)] }
                        ELSE IF resp.readErr
                        THEN { [o1 EXCEPT !.err = "could not read response body"] }
                        ELSE UNION { LET
                                o2 == [o1 EXCEPT
                                         !.fetched = resp.body,
                                         !.write = w,
                                         !.dir = PutEntry(o1.dir, cacheFile,
                                                     WriteFile(Entry(o1.dir, cacheFile), resp.body, w, now)),
                                         !.stdout = IF w = "ok" THEN o1.stdout
                                                    ELSE Append(o1.stdout, "could not write cache file")]
                                u == UnmarshalDictionaries(resp.body)
                                o3 == [o2 EXCEPT !.unmarshals = 1]
                              IN IF u.err # ""
                                 THEN { [o3 EXCEPT !.err = "could not unmarshal json: " \o u.err] }
                                 ELSE { [o3 EXCEPT !.dictionaries = u.val] }
                              : w \in WriteOutcomes }
                        : resp \in Responses(DictBodies) }
          : statFails \in BOOLEAN }

RECURSIVE listDictionaries(_)
\* the listing of .dict: the dictionaries with exactly two languages
listDictionaries(ds) ==
    IF ds = <<>> THEN <<>>
    ELSE (IF Len(ds[1].Languages) = 2
          THEN << ds[1].Key \o ": " \o ds[1].SimpleLabel >> ELSE <<>>)
         \o listDictionaries(Tail(ds))

\* handleDictCommand (src/main.go:510-536): the outcome and the dictionary
\* that is current afterwards
handleDictCommand(args) ==
    { IF o.err # "" THEN [o |-> o, currentDict |-> currentDict]
      ELSE IF Len(args) = 0
      THEN [o |-> [o EXCEPT !.stdout = o.stdout \o << "Usage: .dict <dictionary_key>" >>
                                        \o listDictionaries(o.dictionaries)],
            currentDict |-> currentDict]
      ELSE IF \E i \in 1..Len(o.dictionaries) : o.dictionaries[i].Key = args[1]
      THEN [o |-> o, currentDict |-> args[1]]
      ELSE [o |-> [o EXCEPT !.err = "unknown dictionary key: " \o args[1]],
            currentDict |-> currentDict]
      : o \in getDictionaries }

\* what the user may type after .set
SetArgs ==
    { <<>>, << "api_key" >>, << "api_key", "k" >>,
      << "cache_ttl", "0" >>, << "cache_ttl", "1" >>, << "cache_ttl", "x" >>,
      << "cmd_history_limit", "100" >>, << "cmd_history_limit", "x" >>,
      << "search_history_limit", "50" >> }

\* writeConfig (src/main.go:493-508)
writeConfig(o) == { o, [o EXCEPT !.err = "could not create config file"] }

\* handleSetCommand (src/main.go:452-491): the outcome and the configuration
\* in memory afterwards
handleSetCommand(args) ==
    IF Len(args) = 0
    THEN { [o |-> [Did EXCEPT !.stdout =
                      << "Usage: .set <variable> <value>",
                         "api_key: " \o config.APIKey,
                         "cache_ttl: " \o ToString(config.CacheTTL),
                         "cmd_history_limit: " \o ToString(config.CmdHistoryLimit) >>],
            config |-> config] }
    ELSE IF Len(args) # 2
    THEN { [o |-> [Did EXCEPT !.err = "invalid number of arguments"], config |-> config] }
    ELSE LET varName == args[1]
             varValue == args[2]
         IN  CASE varName = "api_key" ->
                    { [o |-> o, config |-> [config EXCEPT !.APIKey = varValue]]
                      : o \in writeConfig(Did) }
               [] varName = "cache_ttl" ->
                    IF Atoi(varValue).err
                    THEN { [o |-> [Did EXCEPT !.err = "invalid value for cache_ttl: " \o varValue],
                            config |-> config] }
                    ELSE { [o |-> o, config |-> [config EXCEPT !.CacheTTL = Atoi(varValue).val]]
                           : o \in writeConfig(Did) }
               [] varName = "cmd_history_limit" ->
                    IF Atoi(varValue).err
                    THEN { [o |-> [Did EXCEPT !.err = "invalid value for cmd_history_limit: " \o varValue],
                            config |-> config] }
                    ELSE { [o |-> o, config |-> [config EXCEPT !.CmdHistoryLimit = Atoi(varValue).val]]
                           : o \in writeConfig(Did) }
               [] OTHER ->
                    { [o |-> [Did EXCEPT !.err = "unknown variable: " \o varName],
                       config |-> config] }

RECURSIVE historyRows(_, _)
\* the rows of search_history, newest first (ORDER BY date DESC)
historyRows(rows, i) ==
    IF i = 0 THEN <<>>
    ELSE << rows[i].term \o " | " \o rows[i].dict >>
         \o historyRows(rows, i - 1)

\* handleHistoryCommand (src/main.go:428-450)
handleHistoryCommand ==
    { [Did EXCEPT !.err = "could not query search history"],
      [Did EXCEPT !.stdout = << "Searched Term | Dictionary | Date" >>
                             \o historyRows(searchHistory, Len(searchHistory))] }

\* handleHelpCommand (src/main.go:417-426)
handleHelpCommand ==
    [Did EXCEPT !.stdout = << "Available commands:", ".help", ".quit", ".dict",
                              ".dict <key>", ".history", ".set", ".set <var> <value>" >>]

(***************************************************************************)
(* main (src/main.go:93-186): the interactive loop.  Each action is one    *)
(* pass of the loop: a line is read, dispatched, and the handler runs to   *)
(* completion.                                                             *)
(***************************************************************************)
\* the loop after a handler has returned err: print it, read the next line
AfterHandlerAbort(err) == IF err = "" THEN "ran" ELSE "exited"

AfterHandler(err) == "ran"

\* the record of the command just dispatched; main prints a returned error
Observed(cmd, arg, o) ==
    [cmd |-> cmd, arg |-> arg, dict |-> currentDict,
     err |-> o.err,
     stdout |-> IF o.err = "" THEN o.stdout ELSE Append(o.stdout, "Error: " \o o.err),
     log |-> o.log, checked |-> o.checked, stat |-> o.stat, valid |-> o.valid,
     http |-> o.http, status |-> o.status, fetched |-> o.fetched,
     bodyRead |-> o.bodyRead, write |-> o.write, unmarshals |-> o.unmarshals,
     rendered |-> o.rendered, histTried |-> o.histTried,
     follows |-> cmd = "translate" /\ prev.set /\ prev.word = arg /\ prev.dict = currentDict]

\* the previous pass was no lookup that cached a response
NoLookup == [set |-> FALSE, word |-> "", dict |-> "", fetched |-> None, err |-> "", stdout |-> <<>>]

\* no command has been dispatched in this pass
NoObservation ==
    [cmd |-> None, arg |-> "", dict |-> "", err |-> "", stdout |-> <<>>,
     log |-> <<>>, checked |-> FALSE,
     stat |-> [err |-> "nostat", modTime |-> 0], valid |-> FALSE,
     http |-> 0, status |-> 0, fetched |-> None, bodyRead |-> None,
     write |-> None, unmarshals |-> 0, rendered |-> FALSE, histTried |-> FALSE,
     follows |-> FALSE]

otherVars == <<sweepVars, freshVars, keyVars, romanVars, histVars>>

\* rl.Readline() returns io.EOF: break (src/main.go:143-149)
ReadEOF ==
    /\ pc = "prompt"
    /\ pc' = "exited"
    /\ last' = Observed("eof", "", Did)
    /\ prev' = NoLookup
    /\ UNCHANGED <<now, cacheDir, config, currentDict, searchHistory, otherVars>>

\* rl.Readline() returns another error, such as readline.ErrInterrupt:
\* print it and return (src/main.go:150-151)
ReadError ==
    /\ pc = "prompt"
    /\ pc' = "exited"
    /\ last' = Observed("readerr", "", [Did EXCEPT !.stdout = << "Error reading input: Interrupt" >>])
    /\ prev' = NoLookup
    /\ UNCHANGED <<now, cacheDir, config, currentDict, searchHistory, otherVars>>

\* a blank line: continue (src/main.go:154-158)
EmptyLine ==
    /\ pc = "prompt"
    /\ pc' = "ran"
    /\ last' = Observed("empty", "", Did)
    /\ prev' = NoLookup
    /\ UNCHANGED <<now, cacheDir, config, currentDict, searchHistory, otherVars>>

\* case ".quit": return (src/main.go:164-165)
Quit ==
    /\ pc = "prompt"
    /\ pc' = "exited"
    /\ last' = Observed("quit", "", Did)
    /\ prev' = NoLookup
    /\ UNCHANGED <<now, cacheDir, config, currentDict, searchHistory, otherVars>>

\* case ".help" (src/main.go:166-167)
Help ==
    /\ pc = "prompt"
    /\ pc' = "ran"
    /\ last' = Observed("help", "", handleHelpCommand)
    /\ prev' = NoLookup
    /\ UNCHANGED <<now, cacheDir, config, currentDict, searchHistory, otherVars>>

\* case ".history" (src/main.go:168-171)
History ==
    /\ pc = "prompt"
    /\ \E o \in handleHistoryCommand :
        /\ pc' = AfterHandler(o.err)
        /\ last' = Observed("history", "", o)
        /\ prev' = NoLookup
    /\ UNCHANGED <<now, cacheDir, config, currentDict, searchHistory, otherVars>>

\* case ".dict" (src/main.go:172-175)
DictCmd ==
    /\ pc = "prompt"
    /\ \E args \in {<<>>} \cup { <<k>> : k \in DictArgs } :
       \E r \in handleDictCommand(args) :
        /\ pc' = AfterHandler(r.o.err)
        /\ last' = Observed("dict", IF args = <<>> THEN "" ELSE args[1], r.o)
        /\ prev' = NoLookup
        /\ cacheDir' = r.o.dir
        /\ currentDict' = r.currentDict
    /\ UNCHANGED <<now, config, searchHistory, otherVars>>

\* case ".set" (src/main.go:176-179)
SetCmd ==
    /\ pc = "prompt"
    /\ \E args \in SetArgs :
       \E r \in handleSetCommand(args) :
        /\ pc' = AfterHandler(r.o.err)
        /\ last' = Observed("set", IF args = <<>> THEN "" ELSE args[1], r.o)
        /\ prev' = NoLookup
        /\ config' = r.config
    /\ UNCHANGED <<now, cacheDir, currentDict, searchHistory, otherVars>>

\* default: handleTranslation(command) (src/main.go:180-183)
Translate ==
    /\ pc = "prompt"
    /\ \E word \in Words :
       \E o \in handleTranslation(word) :
        /\ pc' = AfterHandler(o.err)
        /\ last' = Observed("translate", word, o)
        /\ prev' = IF o.write = "ok"
                   THEN [set |-> TRUE, word |-> word, dict |-> currentDict,
                         fetched |-> o.fetched, err |-> o.err, stdout |-> o.stdout]
                   ELSE NoLookup
        /\ cacheDir' = o.dir
        /\ searchHistory' = o.hist
    /\ UNCHANGED <<now, config, currentDict, otherVars>>

\* the handler has returned: the loop sets the prompt and reads the next line
\* (src/main.go:133-143)
LoopBack ==
    /\ pc = "ran"
    /\ pc' = "prompt"
    /\ last' = NoObservation
    /\ UNCHANGED <<now, cacheDir, config, currentDict, searchHistory, prev, otherVars>>

\* a second passes while the loop waits in rl.Readline()
Tick ==
    /\ pc = "prompt"
    /\ now < MaxTime
    /\ now' = now + 1
    /\ UNCHANGED <<pc, cacheDir, config, currentDict, searchHistory, last, prev, otherVars>>

\* setupConfig's defaults (src/main.go:722-725)
defaultApiKey == ""
defaultCacheTTL == 604800
defaultCmdHistoryLimit == 100
\* the default the documentation gives search_history_limit (src/README.md:94)
defaultSearchHistoryLimit == 1000

IdleSweep == swFiles = <<>> /\ swIdx = 0 /\ swLog = <<>>
IdleFresh == fStat = [err |-> "nostat", modTime |-> 0] /\ fTtl = 0 /\ fRet = FALSE /\ fpc = "idle"
IdleKey == kA = <<"", "">> /\ kB = <<"", "">> /\ kKeyA = None /\ kKeyB = None /\ kpc = "idle"
IdleRoman == rIn = 0 /\ num = 0 /\ ri = 1 /\ sb = <<>> /\ rpc = "idle"
IdleHist == searchHistoryLimit = defaultSearchHistoryLimit /\ dbCapacity = MaxHistory
IdleProc ==
    /\ pc = "idle" /\ now = 0
    /\ cacheDir = [n \in CacheNames |-> NoEntry]
    /\ config = [APIKey |-> defaultApiKey, CacheTTL |-> defaultCacheTTL,
                 CmdHistoryLimit |-> defaultCmdHistoryLimit]
    /\ currentDict = ""
    /\ searchHistory = <<>>
    /\ last = NoObservation
    /\ prev = NoLookup

\* a session starts: setup() has loaded a configuration that holds the user's
\* API key and the defaults, the cache directory and the search_history table
\* are empty, and main is about to read its first line
Init ==
    /\ pc = "prompt" /\ now = 0
    /\ cacheDir = [n \in CacheNames |-> NoEntry]
    /\ config = [APIKey |-> "k", CacheTTL |-> defaultCacheTTL,
                 CmdHistoryLimit |-> defaultCmdHistoryLimit]
    /\ currentDict = ""
    /\ searchHistory = <<>>
    /\ last = NoObservation
    /\ prev = NoLookup
    /\ IdleSweep /\ IdleFresh /\ IdleKey /\ IdleRoman /\ IdleHist

Next ==
    \/ ReadEOF \/ ReadError \/ EmptyLine \/ Quit \/ Help \/ History
    \/ DictCmd \/ SetCmd \/ Translate \/ LoopBack \/ Tick

Spec == Init /\ [][Next]_vars

(***************************************************************************)
(* cleanupExpiredCacheFiles (src/main.go:694-720), called by setupCache    *)
(* (681-692) after setupConfig has loaded the configuration.  One action   *)
(* per statement group: the directory read, one pass of the range loop,    *)
(* the return.                                                             *)
(***************************************************************************)
\* if time.Since(info.ModTime()) > cacheTTL
ExpiredGe(age, ttl) == age >= ttl

ExpiredLt(age, ttl) == age < ttl

Expired(age, ttl) == age > ttl

\* os.ReadDir: the entries present, sorted by name
ReadDir(dir) ==
    LET present == SelectSeq(NamesSorted, LAMBDA n : Entry(dir, n).kind # "none")
    IN  [i \in 1..Len(present) |->
            [name |-> present[i], isDir |-> Entry(dir, present[i]).kind = "dir"]]

SweepReadDir ==
    /\ pc = "sweep" /\ swIdx = 0
    /\ \/ /\ swFiles' = ReadDir(cacheDir)
          /\ swIdx' = 1
          /\ UNCHANGED <<pc, swLog>>
       \/ \* could not read cache directory: setupCache logs it and goes on
          /\ pc' = "swept"
          /\ swLog' = << [name |-> "", outcome |-> "readdirfail", age |-> 0, ttl |-> 0] >>
          /\ UNCHANGED <<swFiles, swIdx>>
    /\ UNCHANGED <<now, cacheDir, config, currentDict, searchHistory, last, prev>>
    /\ UNCHANGED <<freshVars, keyVars, romanVars, histVars>>

\* one pass of: for _, file := range files
SweepEntry ==
    /\ pc = "sweep" /\ swIdx \in 1..Len(swFiles)
    /\ LET file == swFiles[swIdx]
           info == Entry(cacheDir, file.name)
           age == Since(now, info.modTime)
           ttl == cacheTTL(config)
           rec(outcome) == [name |-> file.name, outcome |-> outcome, age |-> age, ttl |-> ttl]
       IN  IF file.isDir
           THEN UNCHANGED <<cacheDir, swLog>>
           ELSE \/ \* file.Info() fails: log, continue
                   /\ swLog' = Append(swLog, rec("infofail"))
                   /\ UNCHANGED cacheDir
                \/ /\ ~Expired(age, ttl)
                   /\ swLog' = Append(swLog, rec("kept"))
                   /\ UNCHANGED cacheDir
                \/ /\ Expired(age, ttl)
                   /\ \/ /\ cacheDir' = PutEntry(cacheDir, file.name, NoEntry)
                         /\ swLog' = Append(swLog, rec("removed"))
                      \/ \* os.Remove fails: log, go on
                         /\ swLog' = Append(swLog, rec("removefail"))
                         /\ UNCHANGED cacheDir
    /\ swIdx' = swIdx + 1
    /\ UNCHANGED <<pc, now, config, currentDict, searchHistory, last, prev, swFiles>>
    /\ UNCHANGED <<freshVars, keyVars, romanVars, histVars>>

\* the range loop is over: return nil
SweepReturn ==
    /\ pc = "sweep" /\ swIdx > Len(swFiles)
    /\ pc' = "swept"
    /\ UNCHANGED <<now, cacheDir, config, currentDict, searchHistory, last, prev>>
    /\ UNCHANGED <<sweepVars, freshVars, keyVars, romanVars, histVars>>

\* a second passes during the sweep
SweepTick ==
    /\ pc = "sweep"
    /\ now < MaxTime
    /\ now' = now + 1
    /\ UNCHANGED <<pc, cacheDir, config, currentDict, searchHistory, last, prev>>
    /\ UNCHANGED <<sweepVars, freshVars, keyVars, romanVars, histVars>>

\* the cache_ttl values a loaded configuration may hold at startup
StartupTTLs == {0, 1, defaultCacheTTL}

\* setupCache is about to sweep a cache directory left by earlier sessions:
\* cache files of any age, possibly a subdirectory
InitSweep ==
    /\ pc = "sweep"
    /\ now \in 0..MaxTime
    /\ cacheDir \in [CacheNames -> {NoEntry}
                       \cup { [kind |-> "file", modTime |-> t, content |-> RomsJson] : t \in 0..MaxTime }
                       \cup { [kind |-> "dir", modTime |-> 0, content |-> ""] }]
    /\ \A n \in CacheNames :
          /\ cacheDir[n].modTime <= now
          /\ (cacheDir[n].kind = "dir") => (n = SubDir)
          /\ (cacheDir[n].kind = "file") => (n # SubDir)
    /\ \E ttl \in StartupTTLs :
          config = [APIKey |-> "k", CacheTTL |-> ttl, CmdHistoryLimit |-> defaultCmdHistoryLimit]
    /\ currentDict = "" /\ searchHistory = <<>>
    /\ last = NoObservation /\ prev = NoLookup
    /\ swFiles = <<>> /\ swIdx = 0 /\ swLog = <<>>
    /\ IdleFresh /\ IdleKey /\ IdleRoman /\ IdleHist

NextSweep == SweepReadDir \/ SweepEntry \/ SweepReturn \/ SweepTick

SpecSweep == InitSweep /\ [][NextSweep]_vars

(***************************************************************************)
(* isCacheValid applied to drawn inputs.                                   *)
(***************************************************************************)
MaxClock == 4

FreshCall ==
    /\ fpc = "call"
    /\ fRet' = isCacheValid(fStat, fTtl, now)
    /\ fpc' = "done"
    /\ UNCHANGED <<fStat, fTtl, procVars, sweepVars, keyVars, romanVars, histVars>>

InitFresh ==
    /\ now \in 0..MaxClock
    /\ fStat \in { [err |-> "notexist", modTime |-> 0], [err |-> "other", modTime |-> 0] }
                 \cup { [err |-> "", modTime |-> t] : t \in 0..now }
    /\ fTtl \in (0 - 2)..(MaxClock + 1)
    /\ fRet = FALSE /\ fpc = "call"
    /\ pc = "idle"
    /\ cacheDir = [n \in CacheNames |-> NoEntry]
    /\ config = [APIKey |-> defaultApiKey, CacheTTL |-> defaultCacheTTL,
                 CmdHistoryLimit |-> defaultCmdHistoryLimit]
    /\ currentDict = "" /\ searchHistory = <<>>
    /\ last = NoObservation /\ prev = NoLookup
    /\ IdleSweep /\ IdleKey /\ IdleRoman /\ IdleHist

SpecFresh == InitFresh /\ [][FreshCall]_vars

(***************************************************************************)
(* getTranslationCacheKey applied to two drawn (word, dict) pairs.         *)
(***************************************************************************)
KeyWords == {"a", "a_b", "a_", "b"}
KeyDicts == {"c", "b_c", "_c", "de"}

KeyCall ==
    /\ kpc = "call"
    /\ kKeyA' = getTranslationCacheKey(kA[1], kA[2])
    /\ kKeyB' = getTranslationCacheKey(kB[1], kB[2])
    /\ kpc' = "done"
    /\ UNCHANGED <<kA, kB, procVars, sweepVars, freshVars, romanVars, histVars>>

InitKey ==
    /\ kA \in KeyWords \X KeyDicts
    /\ kB \in KeyWords \X KeyDicts
    /\ kKeyA = None /\ kKeyB = None /\ kpc = "call"
    /\ IdleProc /\ IdleSweep /\ IdleFresh /\ IdleRoman /\ IdleHist

SpecKey == InitKey /\ [][KeyCall]_vars

(***************************************************************************)
(* toRoman entered with a drawn argument.                                  *)
(***************************************************************************)
InitRoman ==
    /\ rIn \in 1..MaxRoman
    /\ num = rIn /\ ri = 1 /\ sb = <<>> /\ rpc = "loop"
    /\ IdleProc /\ IdleSweep /\ IdleFresh /\ IdleKey /\ IdleHist

NextRoman == RomanInner \/ RomanNextVal \/ RomanReturn

SpecRoman == InitRoman /\ [][NextRoman]_vars

(***************************************************************************)
(* Sessions seen from the search history.  config.toml holds the three     *)
(* keys setupConfig looks for (src/main.go:748-759), so it is not          *)
(* rewritten at startup, and may state search_history_limit as the         *)
(* documentation describes it; toml.DecodeFile (734) decodes into Config   *)
(* (36-40), which has no field for that key.  The only variable the user   *)
(* sets in these sessions is search_history_limit, so writeConfig never    *)
(* replaces the file.                                                      *)
(***************************************************************************)
MaxSearches == 2

\* what config.toml may state for search_history_limit; absent, the
\* documented default applies
FileLimits == {1, defaultSearchHistoryLimit}

\* .set search_history_limit <value>
SetLimit == SetCmd /\ last'.arg = "search_history_limit"

InitHistory ==
    /\ pc = "prompt" /\ now = 0
    /\ cacheDir = [n \in CacheNames |-> NoEntry]
    /\ config = [APIKey |-> "k", CacheTTL |-> defaultCacheTTL,
                 CmdHistoryLimit |-> defaultCmdHistoryLimit]
    /\ currentDict = ""
    /\ searchHistory = <<>>
    /\ last = NoObservation
    /\ prev = NoLookup
    /\ searchHistoryLimit \in FileLimits
    /\ dbCapacity = MaxSearches
    /\ IdleSweep /\ IdleFresh /\ IdleKey /\ IdleRoman

NextHistory == DictCmd \/ SetLimit \/ Translate \/ History \/ LoopBack

SpecHistory == InitHistory /\ [][NextHistory]_vars

(***************************************************************************)
(* The claims.                                                             *)
(***************************************************************************)
\* a step of Spec in which main dispatches the line it has read: the unprimed
\* variables are the state the handler starts in, last' is what it did
Dispatches(cmd) == pc = "prompt" /\ pc' # "prompt" /\ last'.cmd = cmd

\* the entry is a file whose age is below the configured TTL
FreshEntry(entry, cfg, clock) ==
    entry.kind = "file" /\ clock - entry.modTime < cfg.CacheTTL

Contains(seq, x) == \E i \in 1..Len(seq) : seq[i] = x

\* C1: a lookup with an active dictionary whose cache file exists, can be
\* stat'ed and is fresh under the configured TTL issues no HTTP request and
\* serves what it prints from the cached bytes; a request is issued (at most
\* one) only when the entry is missing, stale or cannot be stat'ed.
C1_FreshEntryServedFromCache ==
    [][ (Dispatches("translate") /\ currentDict # "") =>
          LET entry == Entry(cacheDir, TranslationFile(last'.arg, currentDict))
              fresh == last'.stat.err = "" /\ FreshEntry(entry, config, now)
          IN  /\ last'.checked
              /\ last'.http <= 1
              /\ (last'.http = 1) <=> ~fresh
              /\ fresh =>
                    /\ last'.fetched = None /\ last'.write = None
                    /\ last'.bodyRead \in {None, entry.content}
                    /\ (last'.err = "") =>
                          /\ last'.bodyRead = entry.content
                          /\ last'.stdout =
                               displayTranslation(UnmarshalTranslations(entry.content).val,
                                                  currentDict)
      ]_vars

C1_Witness ==
    /\ last.cmd = "translate" /\ last.valid /\ last.http = 0
    /\ last.rendered /\ last.bodyRead = RomsJson

\* C2: isCacheValid is false when the path does not exist or cannot be
\* stat'ed; otherwise it is true exactly when now - modTime < ttl: true one
\* second before the TTL has elapsed, false once it has, and false for every
\* ttl <= 0.
C2_IsCacheValid ==
    (fpc = "done") =>
        LET age == now - fStat.modTime IN
        /\ (fStat.err # "") => (fRet = FALSE)
        /\ (fStat.err = "") => (fRet <=> (age < fTtl))
        /\ (fStat.err = "" /\ age = fTtl - 1) => (fRet = TRUE)
        /\ (fStat.err = "" /\ age >= fTtl) => (fRet = FALSE)
        /\ (fTtl <= 0) => (fRet = FALSE)

C2_Witness ==
    /\ fpc = "done" /\ fStat.err = "" /\ fTtl > 0
    /\ now - fStat.modTime = fTtl /\ fRet = FALSE

\* C3: a lookup answered with HTTP 204 prints "No translation found", returns
\* no error, writes no cache file, deserializes nothing, and leaves the cache
\* directory exactly as it was.
C3_NoContent ==
    /\ [](  (last.cmd = "translate" /\ last.status = StatusNoContent) =>
              /\ last.err = "" /\ pc = "ran"
              /\ last.stdout = << "No translation found" >>
              /\ last.write = None /\ last.unmarshals = 0 /\ ~last.rendered )
    /\ [][ (Dispatches("translate") /\ last'.status = StatusNoContent) =>
              cacheDir' = cacheDir ]_vars

C3_Witness ==
    /\ last.cmd = "translate" /\ last.status = StatusNoContent
    /\ last.http = 1 /\ last.stdout = << "No translation found" >>

\* C4: with no dictionary selected a lookup ends in an error before any cache
\* check, request, cache write, rendering or history append; the cache
\* directory and the search history stay as they were.
C4_NoDictionary ==
    /\ [](  (last.cmd = "translate" /\ last.dict = "") =>
              /\ last.err # ""
              /\ ~last.checked /\ last.http = 0 /\ last.write = None
              /\ last.unmarshals = 0 /\ ~last.rendered /\ ~last.histTried
              /\ last.stdout = << "Error: " \o last.err >> )
    /\ [][ (Dispatches("translate") /\ currentDict = "") =>
              /\ cacheDir' = cacheDir
              /\ searchHistory' = searchHistory ]_vars

C4_Witness == last.cmd = "translate" /\ last.dict = "" /\ last.err # ""

\* C5: a failed cache write after a 200 fetch, in handleTranslation and in
\* getDictionaries, is logged only: the message goes to the log and not to
\* standard output, the fetched body is still deserialized, and a lookup whose
\* body parses renders it and returns no error.
C5_WriteFailureLoggedOnly ==
    (last.cmd \in {"translate", "dict"} /\ last.write \in {"openfail", "writefail"}) =>
        /\ ~Contains(last.stdout, "could not write cache file")
        /\ Contains(last.log, "could not write cache file")
        /\ last.unmarshals = 1
        /\ (last.cmd = "translate" /\ UnmarshalTranslations(last.fetched).err = "") =>
              (last.err = "" /\ last.rendered)

\* C7 as stated: the session ends only on .quit or on end-of-input.
C7_EndsOnlyOnQuitOrEOF == (pc = "exited") => (last.cmd \in {"quit", "eof"})

\* C7 amended: an error returned by a handler is printed and the loop goes on;
\* the session ends only on .quit, on end-of-input, or on another error
\* returned by Readline.
C7_HandlerErrorsDoNotEndSession ==
    /\ (pc = "exited") => (last.cmd \in {"quit", "eof", "readerr"})
    /\ (last.cmd \in {"history", "dict", "set", "translate"} /\ last.err # "") =>
          /\ pc = "ran"
          /\ last.stdout # <<>>
          /\ last.stdout[Len(last.stdout)] = "Error: " \o last.err

C7_Witness == pc = "ran" /\ last.cmd = "set" /\ last.err # ""

\* C8: when a lookup fetched a 200 response and wrote it, and the next command
\* is a lookup of the same (word, dict) that finds the entry fresh, that lookup
\* issues no request, reads bytes identical to the fetched body, and prints
\* exactly what the first lookup printed.
C8_CacheRoundTrip ==
    [][ ( /\ Dispatches("translate")
          /\ prev.set /\ prev.word = last'.arg /\ prev.dict = currentDict
          /\ last'.stat.err = ""
          /\ FreshEntry(Entry(cacheDir, TranslationFile(last'.arg, currentDict)), config, now) )
        =>
        ( /\ last'.follows
          /\ last'.http = 0
          /\ last'.bodyRead \in {None, prev.fetched}
          /\ (last'.bodyRead # None /\ prev.err = "") =>
                (last'.err = "" /\ last'.rendered /\ last'.stdout = prev.stdout)
          /\ (last'.bodyRead # None /\ prev.err # "") => (last'.err # "") )
      ]_vars

C8_Witness ==
    /\ last.cmd = "translate" /\ last.follows /\ last.valid
    /\ last.bodyRead = RomsJson /\ last.rendered

\* C9: different (word, dict) pairs get different cache keys.
C9_DistinctPairsDistinctKeys ==
    (kpc = "done" /\ kA # kB) => (kKeyA # kKeyB)

\* the standard numeral, digit by digit
RomanDigit(d, one, five, ten) ==
    CASE d = 0 -> ""
      [] d = 1 -> one
      [] d = 2 -> one \o one
      [] d = 3 -> one \o one \o one
      [] d = 4 -> one \o five
      [] d = 5 -> five
      [] d = 6 -> five \o one
      [] d = 7 -> five \o one \o one
      [] d = 8 -> five \o one \o one \o one
      [] d = 9 -> one \o ten

RECURSIVE Thousands(_)
Thousands(k) == IF k = 0 THEN "" ELSE "M" \o Thousands(k - 1)

StandardRoman(n) ==
    Thousands(n \div 1000)
    \o RomanDigit((n \div 100) % 10, "C", "D", "M")
    \o RomanDigit((n \div 10) % 10, "X", "L", "C")
    \o RomanDigit(n % 10, "I", "V", "X")

SymbolValue(sym) == vals[CHOOSE i \in 1..Len(romans) : romans[i] = sym]

RECURSIVE SymbolSum(_)
SymbolSum(w) == IF w = <<>> THEN 0 ELSE SymbolValue(w[1]) + SymbolSum(Tail(w))

\* C10: for n in 1..MaxRoman toRoman(n) returns the standard subtractive
\* numeral of n, its symbols' values sum to n, and the loop ends: every step
\* consumes a value or a unit of the remainder, of which there are finitely
\* many.
C10_ToRoman ==
    /\ num >= 0 /\ ri \in 1..(Len(vals) + 1)
    /\ num + SymbolSum(sb) = rIn
    /\ (ri > 1) => (num < vals[ri - 1])
    /\ (rpc = "done") =>
          /\ num = 0
          /\ BuilderString(sb) = StandardRoman(rIn)
          /\ BuilderString(sb) = toRoman(rIn)
          /\ (rIn = 1) => (BuilderString(sb) = "I")
          /\ (rIn = 4) => (BuilderString(sb) = "IV")
          /\ (rIn = 9) => (BuilderString(sb) = "IX")
          /\ (rIn = 40) => (BuilderString(sb) = "XL")
          /\ (rIn = 90) => (BuilderString(sb) = "XC")
          /\ (rIn = 1994) => (BuilderString(sb) = "MCMXCIV")

C10_Witness == rpc = "done" /\ rIn = 1994 /\ BuilderString(sb) = "MCMXCIV"

\* C6: when the sweep has returned after reading the directory, every
\* non-directory entry of the listing was visited once and in order, also
\* after a failure on an earlier one; an entry was removed only if its age
\* exceeded the TTL and kept only if it did not or its stat or removal
\* failed; no directory was removed.
C6_Sweep ==
    (pc = "swept" /\ ~Contains(swLog, [name |-> "", outcome |-> "readdirfail", age |-> 0, ttl |-> 0])) =>
        LET nonDirs == SelectSeq(swFiles, LAMBDA f : ~f.isDir) IN
        /\ Len(swLog) = Len(nonDirs)
        /\ \A i \in 1..Len(swLog) :
              /\ swLog[i].name = nonDirs[i].name
              /\ swLog[i].ttl = config.CacheTTL
              /\ swLog[i].outcome \in {"infofail", "kept", "removed", "removefail"}
              /\ (swLog[i].outcome = "removed") =>
                    (swLog[i].age > swLog[i].ttl /\ Entry(cacheDir, swLog[i].name).kind = "none")
              /\ (swLog[i].outcome = "removefail") =>
                    (swLog[i].age > swLog[i].ttl /\ Entry(cacheDir, swLog[i].name).kind = "file")
              /\ (swLog[i].outcome = "kept") =>
                    (swLog[i].age <= swLog[i].ttl /\ Entry(cacheDir, swLog[i].name).kind = "file")
              /\ (swLog[i].outcome = "infofail") =>
                    (Entry(cacheDir, swLog[i].name).kind = "file")
        /\ \A i \in 1..Len(swFiles) :
              swFiles[i].isDir => (Entry(cacheDir, swFiles[i].name).kind = "dir")

C6_Witness ==
    /\ pc = "swept" /\ Len(swLog) = 3
    /\ swLog[1].outcome = "infofail"
    /\ swLog[2].outcome = "removed"
    /\ swLog[3].outcome = "kept" /\ swLog[3].age = swLog[3].ttl
    /\ Entry(cacheDir, SubDir).kind = "dir"

\* the rows stored in search_history never exceed the limit in force
RowsWithinLimit == Len(searchHistory) <= searchHistoryLimit

\* C11: search_history_limit can be set, and the number of rows stored in
\* search_history never exceeds the limit in force.
C11_SearchHistoryBounded ==
    /\ (last.cmd = "set" /\ last.arg = "search_history_limit") => (last.err = "")
    /\ RowsWithinLimit

\* the documents of this model that are well-formed translation responses
WellFormed(body) == body \in {RomsJson, FlatJson}

\* C12: a lookup that fetches a 200 response whose body does not parse, and
\* writes it, ends in "could not unmarshal json" with the body stored in the
\* cache file as fetched; and every lookup that finds a stored body that does
\* not parse, fresh under the configured TTL, issues no request, fails, with
\* "could not unmarshal cached json" once the file has been read, renders
\* nothing and leaves the cache directory and the search history as they were.
C12_MalformedBodyCached ==
    [][ LET file == TranslationFile(last'.arg, currentDict)
            entry == Entry(cacheDir, file)
        IN
        /\ ( /\ Dispatches("translate")
             /\ last'.write = "ok"
             /\ ~WellFormed(last'.fetched) )
           =>
           ( /\ last'.err = "could not unmarshal json: unexpected end of JSON input"
             /\ ~last'.rendered
             /\ Entry(cacheDir', file) =
                   [kind |-> "file", modTime |-> now, content |-> last'.fetched] )
        /\ ( /\ Dispatches("translate")
             /\ currentDict # ""
             /\ entry.kind = "file"
             /\ ~WellFormed(entry.content)
             /\ last'.stat.err = ""
             /\ FreshEntry(entry, config, now) )
           =>
           ( /\ last'.http = 0
             /\ last'.err # ""
             /\ (last'.bodyRead # None) =>
                   /\ last'.bodyRead = entry.content
                   /\ last'.err =
                        "could not unmarshal cached json: unexpected end of JSON input"
             /\ ~last'.rendered
             /\ cacheDir' = cacheDir
             /\ searchHistory' = searchHistory )
      ]_vars

\* a lookup has just failed on the stored body that the lookup before it, of
\* the same word and dictionary, had fetched and written
C12_Witness ==
    /\ last.cmd = "translate" /\ last.follows /\ last.valid /\ last.http = 0
    /\ last.bodyRead = MalformedJson
    /\ last.err = "could not unmarshal cached json: unexpected end of JSON input"

\* what isCacheValid answers for the entry of a sweep record, asked at the
\* instant and with the TTL of that record, when its os.Stat succeeds
FreshAt(rec) == isCacheValid([err |-> "", modTime |-> 0], rec.ttl, rec.age)

\* the record's entry is still in the cache directory when the pass is over
StillThere(rec) == rec.outcome \in {"kept", "infofail", "removefail"}

\* the passes of the range loop made so far
SweepRecords ==
    { swLog[i] : i \in { j \in 1..Len(swLog) : swLog[j].outcome # "readdirfail" } }

\* C13 as stated: the sweep removes no entry that isCacheValid reports fresh,
\* and an entry that is stale and still there after its pass has an age equal
\* to the TTL.
C13_OnlyBoundaryStaleKept ==
    \A rec \in SweepRecords :
        /\ (rec.outcome = "removed") => ~FreshAt(rec)
        /\ (StillThere(rec) /\ ~FreshAt(rec)) => (rec.age = rec.ttl)

\* C13 amended: the sweep removes, and tries to remove, no entry that
\* isCacheValid reports fresh; an entry whose age equals the TTL is stale and
\* is kept; and an entry that is stale and still there after its pass has an
\* age equal to the TTL, or its stat or its removal failed.
C13_SweepKeepsFresh ==
    \A rec \in SweepRecords :
        /\ (rec.outcome \in {"removed", "removefail"}) => ~FreshAt(rec)
        /\ FreshAt(rec) => (rec.outcome \in {"kept", "infofail"})
        /\ (rec.age = rec.ttl) => (~FreshAt(rec) /\ rec.outcome \in {"kept", "infofail"})
        /\ (StillThere(rec) /\ ~FreshAt(rec)) =>
              \/ rec.age = rec.ttl
              \/ rec.outcome \in {"infofail", "removefail"}

\* a sweep has kept a stale entry at the boundary, removed an expired one and
\* failed to remove another
C13_Witness ==
    /\ pc = "swept"
    /\ \E rec \in SweepRecords :
          rec.outcome = "kept" /\ rec.age = rec.ttl /\ ~FreshAt(rec)
    /\ \E rec \in SweepRecords : rec.outcome = "removefail" /\ rec.age > rec.ttl
    /\ \E rec \in SweepRecords : rec.outcome = "removed"

====
